---- MODULE Spec2Model ----
(***************************************************************************)
(* A model of the core of rikkaparser (src/cli): the part classifier       *)
(* parse_message_part, the per-node branch selection of read_conversations *)
(* with parse_ui_message, the line-driven block engine simple_markdown    *)
(* and the inline formatter inline_format.                                 *)
(*                                                                         *)
(* JSON values are tagged tuples, <<kind, payload>>, so that values of     *)
(* different Python types can be told apart and compared:                  *)
(*   <<"str", s>>  <<"num", n>>  <<"null">>  <<"list", seq>>  <<"obj", f>> *)
(* where f is a function from the keys present in the dict to JSON values. *)
(***************************************************************************)
EXTENDS Integers, Sequences, FiniteSets, TLC

VARIABLES
    pc,             \* which program is running and where it stands
    part,           \* parse_message_part: its argument
    depth,          \* nesting depth of tool outputs inside part
    parsed_part,    \* parse_message_part: how the call ended
    messages_json,  \* read_conversations: node_row["messages"]
    select_index,   \* read_conversations: node_row["select_index"]
    selected_msg,   \* read_conversations: the variant picked
    conv_messages,  \* read_conversations: conv.messages
    in_code_block,  \* simple_markdown locals
    code_lang,
    code_lines,
    in_table,
    table_rows,
    result,
    nlines,         \* number of lines of the input consumed so far
    last_line,      \* the line consumed by the last step
    raw_text,       \* the text a caller hands to escape and inline_format
    inline_text,    \* inline_format: its `text`, rewritten stage by stage
    code_spans      \* inline_format: the contents of the code spans saved

vars == <<pc, part, depth, parsed_part, messages_json, select_index,
          selected_msg, conv_messages, in_code_block, code_lang, code_lines,
          in_table, table_rows, result, nlines, last_line, raw_text,
          inline_text, code_spans>>

classify_vars == <<part, depth, parsed_part>>
node_vars == <<messages_json, select_index, selected_msg, conv_messages>>
md_vars == <<in_code_block, code_lang, code_lines, in_table, table_rows,
             result, nlines, last_line>>
inline_vars == <<raw_text, inline_text, code_spans>>

(***************************************************************************)
(* Bounds of the model.                                                    *)
(***************************************************************************)
\* longest raw `output` array built around a record
MaxOutLen == 2
\* deepest nesting of tool records inside tool outputs
MaxDepth == 2
\* most variants in one branch set
MaxVariants == 2
\* most lines in one markdown input
MaxLines == 4

(***************************************************************************)
(* JSON values and the Python operations the code applies to them.         *)
(***************************************************************************)
JStr(s) == <<"str", s>>
JNum(n) == <<"num", n>>
JNull == <<"null">>
JList(q) == <<"list", q>>
JObj(f) == <<"obj", f>>
EmptyDict == [k \in {} |-> JNull]

\* isinstance(v, dict) / isinstance(v, str)
IsDict(v) == v[1] = "obj"
IsStr(v) == v[1] = "str"

\* `key in d`, for a dict d
Has(d, key) == key \in DOMAIN d[2]

\* d.get(key, default), for a dict d
Get(d, key, default) == IF Has(d, key) THEN d[2][key] ELSE default

\* bool(v): the values Python takes for false are "", 0, None, [] and {}
Truthy(v) ==
    CASE v[1] = "str" -> v[2] # ""
      [] v[1] = "num" -> v[2] # 0
      [] v[1] = "null" -> FALSE
      [] v[1] = "list" -> v[2] # <<>>
      [] v[1] = "obj" -> DOMAIN v[2] # {}

\* How a call ends: it returns None, returns a value, or raises.
None == <<"None">>
Ret(v) == <<"value", v>>
Raise(e) == <<"raise", e>>
IsNone(r) == r[1] = "None"
IsValue(r) == r[1] = "value"
IsRaise(r) == r[1] = "raise"

\* `for x in v`: the items, or the TypeError of a value that is not iterable.
\* A str yields its characters, each a str (the inputs use one-character
\* strings). A dict yields its keys, each a str; the loops that use this
\* fail on the first str they are given, so one key stands for the keys.
Iterate(v) ==
    CASE v[1] = "list" -> Ret(v[2])
      [] v[1] = "str" -> Ret(IF v[2] = "" THEN <<>> ELSE <<JStr(v[2])>>)
      [] v[1] = "obj" ->
            Ret(IF DOMAIN v[2] = {} THEN <<>>
                ELSE LET k == CHOOSE k \in DOMAIN v[2] : TRUE IN <<JStr(k)>>)
      [] OTHER -> Raise("TypeError")

(***************************************************************************)
(* models.py                                                               *)
(***************************************************************************)
\* MessagePart(type=t) with every other field at its default
MessagePart(t) ==
    [type |-> t, text |-> JStr(""), url |-> JStr(""), file_name |-> JStr(""),
     mime |-> JStr(""), created_at |-> JStr(""), finished_at |-> JNull,
     tool_call_id |-> JStr(""), tool_name |-> JStr(""), input |-> JStr(""),
     output |-> <<>>]

(***************************************************************************)
(* db_reader.py: parse_message_part                                        *)
(***************************************************************************)
T_Text == "me.rerere.ai.ui.UIMessagePart.Text"
T_Reasoning == "me.rerere.ai.ui.UIMessagePart.Reasoning"
T_Image == "me.rerere.ai.ui.UIMessagePart.Image"
T_Document == "me.rerere.ai.ui.UIMessagePart.Document"
T_Video == "me.rerere.ai.ui.UIMessagePart.Video"
T_Audio == "me.rerere.ai.ui.UIMessagePart.Audio"
T_Tool == "me.rerere.ai.ui.UIMessagePart.Tool"

RECURSIVE parse_message_part(_)
RECURSIVE parse_outputs(_, _)

\* parse_outputs with `break` where the code skips an entry that is None
RECURSIVE parse_outputs_break(_, _)
parse_outputs_break(ops, output_parts) ==
    IF ops = <<>> THEN Ret(output_parts)
    ELSE LET parsed == parse_message_part(Head(ops)) IN
         IF IsRaise(parsed) THEN parsed
         ELSE IF IsValue(parsed)
              THEN parse_outputs_break(Tail(ops), Append(output_parts, parsed[2]))
              ELSE Ret(output_parts)

\* The loop of lines 225-228 over the items still to visit, output_parts
\* being the list built so far. A MessagePart is always true in `if parsed`
\* (a dataclass defines neither __bool__ nor __len__); None is false.
parse_outputs(ops, output_parts) ==
    IF ops = <<>> THEN Ret(output_parts)
    ELSE LET parsed == parse_message_part(Head(ops)) IN
         IF IsRaise(parsed) THEN parsed
         ELSE IF IsValue(parsed)
              THEN parse_outputs(Tail(ops), Append(output_parts, parsed[2]))
              ELSE parse_outputs(Tail(ops), output_parts)

\* The Tool branch, lines 224-235
parse_tool(p) ==
    LET items == Iterate(Get(p, "output", JList(<<>>))) IN
    IF IsRaise(items) THEN items
    ELSE LET outs == parse_outputs(items[2], <<>>) IN
         IF IsRaise(outs) THEN outs
         ELSE Ret([MessagePart("tool") EXCEPT
                      !.tool_call_id = Get(p, "toolCallId", JStr("")),
                      !.tool_name = Get(p, "toolName", JStr("")),
                      !.input = Get(p, "input", JStr("")),
                      !.output = outs[2]])

parse_message_part(p) ==
    IF ~IsDict(p) THEN Raise("AttributeError")   \* no .get on str, int, list, None
    ELSE
    LET part_type == Get(p, "type", JStr("")) IN
    IF part_type = JStr(T_Text)
       \/ (Has(p, "text") /\ ~Has(p, "reasoning") /\ ~Has(p, "toolCallId")
           /\ ~Has(p, "toolName") /\ ~Has(p, "url") /\ ~Has(p, "fileName"))
    THEN LET text == Get(p, "text", JStr("")) IN
         IF ~Truthy(text) /\ ~Truthy(part_type) THEN None
         ELSE Ret([MessagePart("text") EXCEPT !.text = text])
    ELSE IF part_type = JStr(T_Reasoning) \/ Has(p, "reasoning")
    THEN Ret([MessagePart("reasoning") EXCEPT
                 !.text = Get(p, "reasoning", JStr("")),
                 !.created_at = Get(p, "createdAt", JStr("")),
                 !.finished_at = Get(p, "finishedAt", JNull)])
    ELSE IF part_type = JStr(T_Image)
            \/ (Has(p, "url") /\ ~Has(p, "fileName") /\ ~Has(p, "toolCallId")
                /\ ~Has(p, "reasoning"))
    THEN IF Has(p, "toolCallId") \/ Has(p, "toolName") \/ Has(p, "reasoning")
         THEN None
         ELSE Ret([MessagePart("image") EXCEPT !.url = Get(p, "url", JStr(""))])
    ELSE IF part_type = JStr(T_Document) \/ Has(p, "fileName")
    THEN Ret([MessagePart("document") EXCEPT
                 !.url = Get(p, "url", JStr("")),
                 !.file_name = Get(p, "fileName", JStr("")),
                 !.mime = Get(p, "mime", JStr(""))])
    ELSE IF part_type = JStr(T_Video)
    THEN Ret([MessagePart("video") EXCEPT !.url = Get(p, "url", JStr(""))])
    ELSE IF part_type = JStr(T_Audio)
    THEN Ret([MessagePart("audio") EXCEPT !.url = Get(p, "url", JStr(""))])
    ELSE IF part_type = JStr(T_Tool) \/ Has(p, "toolCallId")
    THEN parse_tool(p)
    ELSE IF Has(p, "text") /\ IsStr(p[2]["text"])
    THEN Ret([MessagePart("text") EXCEPT !.text = p[2]["text"]])
    ELSE None

(***************************************************************************)
(* The records handed to parse_message_part (parse_ui_message, line 144,   *)
(* hands it every element of msg["parts"], whatever JSON the backup held). *)
(***************************************************************************)
Absent == <<"absent">>

RecognizedTypes ==
    {T_Text, T_Reasoning, T_Image, T_Document, T_Video, T_Audio, T_Tool}

\* the `type` field: missing, each recognized tag, an unknown tag, ""
TypeChoices ==
    {Absent, JStr(""), JStr("unknown")} \cup {JStr(t) : t \in RecognizedTypes}

\* the `text` field: missing, a string, the empty string, a number, null
TextChoices == {Absent, JStr("hi"), JStr(""), JNum(5), JNull}

StructFields == {"reasoning", "url", "fileName", "toolCallId", "toolName"}

FieldValue(key) ==
    CASE key = "reasoning" -> JStr("r")
      [] key = "url" -> JStr("u")
      [] key = "fileName" -> JStr("f")
      [] key = "toolCallId" -> JStr("c")
      [] key = "toolName" -> JStr("n")

\* a record with the given type, text and structural fields and no output
FlatRecord(ty, tx, fields) ==
    LET keys == fields \cup (IF ty = Absent THEN {} ELSE {"type"})
                       \cup (IF tx = Absent THEN {} ELSE {"text"})
    IN JObj([k \in keys |-> IF k = "type" THEN ty
                            ELSE IF k = "text" THEN tx
                            ELSE FieldValue(k)])

FlatRecords ==
    {FlatRecord(ty, tx, fields) :
        ty \in TypeChoices, tx \in TextChoices, fields \in SUBSET StructFields}

\* the entries put beside a record in a raw `output` array: one that
\* classifies to Text, one that classifies to absent, one that is no object
LeafText == JObj("text" :> JStr("a"))
LeafEmpty == JObj("text" :> JStr(""))
LeafNum == JNum(1)
Leaves == {LeafText, LeafEmpty, LeafNum}

\* values of `output` that are not a list of objects
OddOutputs ==
    {JNull, JNum(3), JStr("x"), JStr(""), JObj(EmptyDict),
     JObj("k" :> JNull), JList(<<LeafNum>>), JList(<<JNull>>)}

\* a Tool record around a given `output`
ToolRecord(tagged, output) ==
    IF tagged
    THEN JObj(("type" :> JStr(T_Tool)) @@ ("output" :> output))
    ELSE JObj(("toolCallId" :> JStr("c")) @@ ("toolName" :> JStr("n"))
              @@ ("input" :> JStr("i")) @@ ("output" :> output))

OddToolRecords ==
    {ToolRecord(tagged, o) : tagged \in BOOLEAN, o \in OddOutputs}

\* the records a raw `output` array is built around
Seeds ==
    {LeafText, LeafEmpty, JObj("url" :> JStr("u")),
     ToolRecord(FALSE, JList(<<>>))}

\* sequences over S of length at most n
SeqsUpTo(S, n) == UNION {[1..k -> S] : k \in 0..n}

(***************************************************************************)
(* The classifier as a program: a record arrives (Init), the input side    *)
(* may nest it inside the output of a Tool record (WrapInTool), and        *)
(* parse_message_part is called on it (Classify).                          *)
(***************************************************************************)
NodeIdle ==
    /\ messages_json = <<"idle">>
    /\ select_index = 0
    /\ selected_msg = None
    /\ conv_messages = <<>>

MdIdle ==
    /\ in_code_block = FALSE
    /\ code_lang = <<>>
    /\ code_lines = <<>>
    /\ in_table = FALSE
    /\ table_rows = <<>>
    /\ result = <<>>
    /\ nlines = 0
    /\ last_line = <<>>

InlineIdle ==
    /\ raw_text = <<>>
    /\ inline_text = <<>>
    /\ code_spans = <<>>

ClassifyIdle ==
    /\ part = JObj(EmptyDict)
    /\ depth = 0
    /\ parsed_part = None

InitClassify ==
    /\ pc = "classify"
    /\ part \in FlatRecords \cup OddToolRecords \cup Seeds
    /\ depth = 0
    /\ parsed_part = None
    /\ NodeIdle
    /\ MdIdle
    /\ InlineIdle

\* The input nests the record: a Tool record whose raw output holds the
\* record among leaf entries.
WrapInTool(left, right) ==
    /\ pc = "classify"
    /\ depth < MaxDepth
    /\ depth > 0 \/ part \in Seeds
    /\ Len(left) + 1 + Len(right) <= MaxOutLen
    /\ part' = ToolRecord(FALSE, JList(left \o <<part>> \o right))
    /\ depth' = depth + 1
    /\ UNCHANGED <<pc, parsed_part, node_vars, md_vars, inline_vars>>

Classify ==
    /\ pc = "classify"
    /\ parsed_part' = parse_message_part(part)
    /\ pc' = "classified"
    /\ UNCHANGED <<part, depth, node_vars, md_vars, inline_vars>>

NextClassify ==
    \/ \E left, right \in SeqsUpTo(Leaves, MaxOutLen - 1) : WrapInTool(left, right)
    \/ Classify

SpecClassify == InitClassify /\ [][NextClassify]_vars

(***************************************************************************)
(* Claims about parse_message_part (checked under SpecClassify).           *)
(***************************************************************************)
HasRecognizedType(p) ==
    Has(p, "type") /\ \E t \in RecognizedTypes : p[2]["type"] = JStr(t)

\* the MessagePart.type that a recognized tag names
VariantOf(tag) ==
    CASE tag = JStr(T_Text) -> "text"
      [] tag = JStr(T_Reasoning) -> "reasoning"
      [] tag = JStr(T_Image) -> "image"
      [] tag = JStr(T_Document) -> "document"
      [] tag = JStr(T_Video) -> "video"
      [] tag = JStr(T_Audio) -> "audio"
      [] tag = JStr(T_Tool) -> "tool"

Returned(t) == IsValue(parsed_part) /\ parsed_part[2].type = t

\* C1: a record whose `type` is one of the seven recognized tags is
\* classified as the variant the tag names, whatever other fields it has.
\* (Calls that raise are left to C2.)
C1_TypeDecides ==
    (pc = "classified" /\ HasRecognizedType(part) /\ ~IsRaise(parsed_part))
        => Returned(VariantOf(part[2]["type"]))

\* C2: parse_message_part never ends with an exception, whatever the record
\* and whatever its `output` holds.
C2_NeverRaises == pc = "classified" => ~IsRaise(parsed_part)

\* the entries of the raw `output` of a record
RawEntries(p) ==
    IF Has(p, "output") /\ p[2]["output"][1] = "list"
    THEN p[2]["output"][2] ELSE <<>>

RECURSIVE ToolOutputOk(_, _)
\* tool is the Tool part made from record p: its output is the raw entries
\* that classify to a Part, in their order, and so on inside each of them
ToolOutputOk(p, tool) ==
    LET raw == RawEntries(p)
        cls == [i \in 1..Len(raw) |-> parse_message_part(raw[i])]
        kept == {i \in 1..Len(raw) : IsValue(cls[i])}
        rank(i) == Cardinality({j \in kept : j <= i})
    IN /\ Len(tool.output) = Cardinality(kept)
       /\ Len(tool.output) <= Len(raw)
       /\ \A i \in kept :
            /\ tool.output[rank(i)] = cls[i][2]
            /\ cls[i][2].type = "tool" => ToolOutputOk(raw[i], cls[i][2])

\* C3: for a record classified as Tool, at every nesting depth, the output
\* is exactly the raw entries that classify to a Part, in their original
\* order; an entry that classifies to absent is dropped and its siblings
\* are classified as they would be alone.
C3_OutputIsKeptEntries ==
    (pc = "classified" /\ Returned("tool")) => ToolOutputOk(part, parsed_part[2])

\* a two-level Tool whose raw output lost an entry and kept a nested Tool
\* that itself kept an entry
C3_Witness ==
    /\ pc = "classified"
    /\ depth >= 2
    /\ Returned("tool")
    /\ Len(parsed_part[2].output) < Len(RawEntries(part))
    /\ \E i \in 1..Len(parsed_part[2].output) :
          /\ parsed_part[2].output[i].type = "tool"
          /\ parsed_part[2].output[i].output # <<>>

\* C4: a record with no recognized type that carries toolCallId or toolName
\* and no fileName is classified as Tool, whatever else it carries.
\* (Calls that raise are left to C2.)
C4_ToolFields ==
    (/\ pc = "classified"
     /\ ~HasRecognizedType(part)
     /\ Has(part, "toolCallId") \/ Has(part, "toolName")
     /\ ~Has(part, "fileName")
     /\ ~IsRaise(parsed_part))
        => Returned("tool")

\* C5: a record with no recognized type that carries fileName is classified
\* as Document (fileName, url, mime as given or ""), whatever else it carries.
C5_FileNameIsDocument ==
    (pc = "classified" /\ ~HasRecognizedType(part) /\ Has(part, "fileName"))
        => /\ Returned("document")
           /\ parsed_part[2].file_name = part[2]["fileName"]
           /\ parsed_part[2].url = Get(part, "url", JStr(""))
           /\ parsed_part[2].mime = Get(part, "mime", JStr(""))

\* C6: a record with no recognized type and none of fileName, toolCallId,
\* toolName, reasoning, url is classified as Text{text} exactly when it has
\* a string-valued text (the empty string included), and as absent otherwise.
C6_TextOrAbsent ==
    (/\ pc = "classified"
     /\ ~HasRecognizedType(part)
     /\ \A f \in StructFields : ~Has(part, f))
        => IF Has(part, "text") /\ IsStr(part[2]["text"])
           THEN /\ Returned("text")
                /\ parsed_part[2].text = part[2]["text"]
           ELSE IsNone(parsed_part)

(***************************************************************************)
(* db_reader.py: parse_ui_message                                          *)
(***************************************************************************)
RECURSIVE parse_parts(_, _)
\* the loop of lines 144-147 over the parts still to visit
parse_parts(todo, parts) ==
    IF todo = <<>> THEN Ret(parts)
    ELSE LET parsed == parse_message_part(Head(todo)) IN
         IF IsRaise(parsed) THEN parsed
         ELSE IF IsValue(parsed)
              THEN parse_parts(Tail(todo), Append(parts, parsed[2]))
              ELSE parse_parts(Tail(todo), parts)

RECURSIVE parse_annotations(_, _)
\* the loop of lines 150-157 over the annotations still to visit
parse_annotations(todo, annotations) ==
    IF todo = <<>> THEN Ret(annotations)
    ELSE LET ann == Head(todo) IN
         IF ~IsDict(ann) THEN Raise("AttributeError")
         ELSE IF Get(ann, "type", JStr("")) = JStr("url_citation")
              THEN parse_annotations(Tail(todo),
                      Append(annotations,
                             [type |-> "url_citation",
                              title |-> Get(ann, "title", JStr("")),
                              url |-> Get(ann, "url", JStr(""))]))
              ELSE parse_annotations(Tail(todo), annotations)

\* raw_usage.get(camel, raw_usage.get(snake, 0))
usage_count(raw_usage, camel, snake) ==
    Get(raw_usage, camel, Get(raw_usage, snake, JNum(0)))

\* lines 159-166: usage stays None unless raw_usage is true
parse_usage(raw_usage) ==
    IF ~Truthy(raw_usage) THEN Ret(JNull)
    ELSE IF ~IsDict(raw_usage) THEN Raise("AttributeError")
    ELSE Ret(JObj(
            ("prompt_tokens" :>
                usage_count(raw_usage, "promptTokens", "prompt_tokens"))
         @@ ("completion_tokens" :>
                usage_count(raw_usage, "completionTokens", "completion_tokens"))
         @@ ("total_tokens" :>
                usage_count(raw_usage, "totalTokens", "total_tokens"))))

\* models.py: Message(...) as parse_ui_message builds it; branch_count and
\* branch_index take the defaults of the dataclass
Message(role, parts, annotations, usage, created_at, finished_at, model_id, translation) ==
    [role |-> role, parts |-> parts, annotations |-> annotations,
     usage |-> usage, created_at |-> created_at, finished_at |-> finished_at,
     model_id |-> model_id, translation |-> translation,
     branch_count |-> 1, branch_index |-> 0]

parse_ui_message(msg) ==
    IF ~IsDict(msg) THEN Raise("AttributeError")
    ELSE
    LET part_items == Iterate(Get(msg, "parts", JList(<<>>)))
        ann_items == Iterate(Get(msg, "annotations", JList(<<>>)))
    IN
    IF IsRaise(part_items) THEN part_items
    ELSE LET parts == parse_parts(part_items[2], <<>>) IN
    IF IsRaise(parts) THEN parts
    ELSE IF IsRaise(ann_items) THEN ann_items
    ELSE LET annotations == parse_annotations(ann_items[2], <<>>) IN
    IF IsRaise(annotations) THEN annotations
    ELSE LET usage == parse_usage(Get(msg, "usage", JNull)) IN
    IF IsRaise(usage) THEN usage
    ELSE Ret(Message(Get(msg, "role", JStr("unknown")), parts[2],
                     annotations[2], usage[2],
                     Get(msg, "createdAt", JStr("")),
                     Get(msg, "finishedAt", JNull),
                     Get(msg, "modelId", JNull),
                     Get(msg, "translation", JNull)))

(***************************************************************************)
(* db_reader.py: read_conversations, the body of the loop over the         *)
(* message_node rows of one conversation (lines 92-109)                    *)
(***************************************************************************)
\* lines 95-98: json.loads(messages_json), [] when the text is not JSON
\* (JSONDecodeError) or the column is NULL (TypeError)
loads_messages(text) ==
    IF text[1] = "json" THEN text[2] ELSE JList(<<>>)

\* lines 100-103: the variant picked, None when there is none.
\* Python indexes from 0, a TLA+ sequence from 1.
select_msg(messages, index) ==
    IF Truthy(messages) /\ 0 <= index /\ index < Len(messages[2])
    THEN Ret(messages[2][index + 1])
    ELSE IF Truthy(messages) THEN Ret(messages[2][1]) ELSE None

\* set_branch reporting the index of the variant that was picked
set_branch_clamped(parsed, messages, index) ==
    [parsed EXCEPT !.branch_count = Len(messages[2]),
                   !.branch_index =
                        IF 0 <= index /\ index < Len(messages[2])
                        THEN index ELSE 0]

\* lines 107-108
set_branch(parsed, messages, index) ==
    [parsed EXCEPT !.branch_count = Len(messages[2]),
                   !.branch_index = index]

\* line 105: `if selected_msg:`
truthy_selected(selected) == IsValue(selected) /\ Truthy(selected[2])

(***************************************************************************)
(* The branch sets read from the database.                                 *)
(***************************************************************************)
UsageCamel ==
    JObj(("promptTokens" :> JNum(3)) @@ ("completionTokens" :> JNum(4))
         @@ ("totalTokens" :> JNum(7)))
UsageSnake ==
    JObj(("prompt_tokens" :> JNum(5)) @@ ("completion_tokens" :> JNum(6)))
UsageOdd ==
    JObj(("promptTokens" :> JNull) @@ ("prompt_tokens" :> JNum(5))
         @@ ("totalTokens" :> JStr("x")))

V_Empty == JObj(EmptyDict)
V_User ==
    JObj(("role" :> JStr("user")) @@ ("createdAt" :> JStr("t"))
         @@ ("parts" :> JList(<<JObj("text" :> JStr("q"))>>)))
V_Assistant ==
    JObj(("role" :> JStr("assistant")) @@ ("modelId" :> JStr("m0"))
         @@ ("parts" :> JList(<<JObj("reasoning" :> JStr("r")),
                                JObj("text" :> JStr("hi")),
                                JObj("text" :> JStr(""))>>))
         @@ ("annotations" :>
                JList(<<JObj(("type" :> JStr("url_citation"))
                             @@ ("title" :> JStr("t")) @@ ("url" :> JStr("u"))),
                        JObj("type" :> JStr("other"))>>))
         @@ ("usage" :> UsageCamel))
V_Snake ==
    JObj(("role" :> JStr("assistant")) @@ ("modelId" :> JStr("m1"))
         @@ ("usage" :> UsageSnake))
V_UsageEmpty ==
    JObj(("role" :> JStr("assistant")) @@ ("modelId" :> JStr("m2"))
         @@ ("usage" :> JObj(EmptyDict)))
V_UsageNull ==
    JObj(("role" :> JStr("assistant")) @@ ("modelId" :> JStr("m3"))
         @@ ("usage" :> JNull))
V_UsageOdd ==
    JObj(("role" :> JStr("assistant")) @@ ("modelId" :> JStr("m4"))
         @@ ("usage" :> UsageOdd))

VariantRecords ==
    {V_Empty, V_User, V_Assistant, V_Snake, V_UsageEmpty, V_UsageNull,
     V_UsageOdd}

\* node_row["messages"]: JSON text of a list of variants, text that is not
\* JSON, or NULL
MessagesColumn ==
    {<<"json", JList(vs)>> : vs \in SeqsUpTo(VariantRecords, MaxVariants)}
        \cup {<<"not json">>, <<"NULL">>}

\* node_row["select_index"]: in range, negative, or too large
SelectColumn == -1 .. MaxVariants + 1

InitNode ==
    /\ pc = "node"
    /\ messages_json \in MessagesColumn
    /\ select_index \in SelectColumn
    /\ selected_msg = None
    /\ conv_messages = <<>>
    /\ ClassifyIdle
    /\ MdIdle
    /\ InlineIdle

\* one pass of the loop body, lines 93-109
ReadNode ==
    /\ pc = "node"
    /\ LET messages == loads_messages(messages_json)
           selected == select_msg(messages, select_index)
       IN /\ selected_msg' = selected
          /\ IF truthy_selected(selected)
             THEN LET parsed == parse_ui_message(selected[2]) IN
                  IF IsRaise(parsed)
                  THEN /\ pc' = "node_raised"
                       /\ UNCHANGED conv_messages
                  ELSE /\ pc' = "node_done"
                       /\ conv_messages' =
                            Append(conv_messages,
                                   set_branch(parsed[2], messages, select_index))
             ELSE /\ pc' = "node_done"
                  /\ UNCHANGED conv_messages
    /\ UNCHANGED <<messages_json, select_index, classify_vars, md_vars, inline_vars>>

NextNode == ReadNode

SpecAssemble == InitNode /\ [][NextNode]_vars

(***************************************************************************)
(* Claims about the assembler (checked under SpecAssemble).                *)
(***************************************************************************)
\* the variants of the row read
Variants == loads_messages(messages_json)[2]

InRange == 0 <= select_index /\ select_index < Len(Variants)

\* the variant the claim says is active
ActiveVariant == IF InRange THEN Variants[select_index + 1] ELSE Variants[1]

\* m is the Message built from variant v, branch fields aside
BuiltFrom(m, v) ==
    LET built == parse_ui_message(v) IN
    /\ IsValue(built)
    /\ [m EXCEPT !.branch_count = 1, !.branch_index = 0] = built[2]

\* C7: the row yields no Message if and only if it has no variants; with
\* variants it yields the Message built from variants[selectedIndex] when
\* the index is in range and from variants[0] otherwise, whatever the
\* chosen variant holds.
C7_AssembleSelects ==
    pc = "node_done" =>
        IF Variants = <<>> THEN conv_messages = <<>>
        ELSE /\ Len(conv_messages) = 1
             /\ BuiltFrom(conv_messages[1], ActiveVariant)

\* C8 as stated: every Message produced has 0 <= branchIndex < branchCount
\* whenever branchCount > 0.
C8_IndexWithinCount ==
    \A i \in 1..Len(conv_messages) :
        conv_messages[i].branch_count > 0 =>
            /\ 0 <= conv_messages[i].branch_index
            /\ conv_messages[i].branch_index < conv_messages[i].branch_count

\* C8 as amended: every Message produced has branchCount = len(variants),
\* which is positive, and branchIndex = selectedIndex as it was given, so
\* 0 <= branchIndex < branchCount holds exactly when selectedIndex is
\* within [0, len(variants)).
C8_BranchFieldsAsGiven ==
    \A i \in 1..Len(conv_messages) :
        LET m == conv_messages[i] IN
        /\ m.branch_count = Len(Variants)
        /\ m.branch_count > 0
        /\ m.branch_index = select_index
        /\ (0 <= m.branch_index /\ m.branch_index < m.branch_count) <=> InRange

\* a Message produced for a selectedIndex that is out of range
C8_Witness ==
    /\ pc = "node_done"
    /\ Len(conv_messages) = 1
    /\ ~InRange
    /\ conv_messages[1].branch_index >= conv_messages[1].branch_count

IsNum(v) == v[1] = "num"

\* the count the claim describes: taken from either name, 0 when missing
\* or not a number
ClaimedCount(raw_usage, camel, snake) ==
    IF Has(raw_usage, camel) /\ IsNum(raw_usage[2][camel])
    THEN raw_usage[2][camel]
    ELSE IF Has(raw_usage, snake) /\ IsNum(raw_usage[2][snake])
    THEN raw_usage[2][snake]
    ELSE JNum(0)

\* C9: the usage of a Message is absent exactly when the variant has no
\* usage object; for a usage object, also one with no fields, it is the
\* triple of counts, each taken from either naming convention, with 0 for
\* every missing or malformed count.
C9_UsageNormalized ==
    (pc = "node_done" /\ conv_messages # <<>>) =>
        LET msg == selected_msg[2]
            usage == conv_messages[1].usage
            has_object == Has(msg, "usage") /\ IsDict(msg[2]["usage"])
        IN IF ~has_object THEN usage = JNull
           ELSE usage = JObj(
                  ("prompt_tokens" :>
                      ClaimedCount(msg[2]["usage"], "promptTokens", "prompt_tokens"))
               @@ ("completion_tokens" :>
                      ClaimedCount(msg[2]["usage"], "completionTokens", "completion_tokens"))
               @@ ("total_tokens" :>
                      ClaimedCount(msg[2]["usage"], "totalTokens", "total_tokens")))

(***************************************************************************)
(* markdown.py: text as sequences of one-character strings, and the str    *)
(* methods and regular expressions simple_markdown applies to a line.      *)
(***************************************************************************)
IsSpace(c) == c \in {" ", "\t"}

RECURSIVE lstrip(_)
lstrip(s) == IF s # <<>> /\ IsSpace(Head(s)) THEN lstrip(Tail(s)) ELSE s

RECURSIVE rstrip(_)
rstrip(s) ==
    IF s # <<>> /\ IsSpace(s[Len(s)]) THEN rstrip(SubSeq(s, 1, Len(s) - 1))
    ELSE s

\* s.strip()
strip(s) == rstrip(lstrip(s))

\* s.startswith(prefix)
startswith(s, prefix) ==
    Len(s) >= Len(prefix) /\ SubSeq(s, 1, Len(prefix)) = prefix

\* s[n:]
from(s, n) == SubSeq(s, n + 1, Len(s))

\* c in s, for a character c
contains(s, c) == \E i \in 1..Len(s) : s[i] = c

RECURSIVE split(_, _)
\* s.split(sep), for a character sep
split(s, sep) ==
    IF ~contains(s, sep) THEN <<s>>
    ELSE LET i == CHOOSE i \in 1..Len(s) :
                    s[i] = sep /\ \A j \in 1..(i - 1) : s[j] # sep
         IN <<SubSeq(s, 1, i - 1)>> \o split(from(s, i), sep)

\* s.replace(c, ""), for a character c
remove(s, c) == SelectSeq(s, LAMBDA x : x # c)

\* the length of the longest prefix of s whose characters are all in set
RECURSIVE run(_, _)
run(s, set) == IF s # <<>> /\ Head(s) \in set THEN 1 + run(Tail(s), set) ELSE 0

Spaces == {" ", "\t"}
Digits == {"0", "1", "2", "3", "4", "5", "6", "7", "8", "9"}

\* `\s+(.+)$` matched against s: <<>> when it does not match, else <<g>>
\* with g the text of the group. \s+ is greedy and gives back one character
\* when nothing is left for the group.
ws_then_content(s) ==
    LET w == run(s, Spaces) IN
    IF w = 0 THEN <<>>
    ELSE IF w < Len(s) THEN <<from(s, w)>>
    ELSE IF w >= 2 THEN <<from(s, w - 1)>>
    ELSE <<>>

\* re.match(r'^(\s*[-*_]\s*){3,}$', s)
is_rule(s) ==
    /\ \A i \in 1..Len(s) : s[i] \in {"-", "*", "_"} \cup Spaces
    /\ Len(SelectSeq(s, LAMBDA x : x \in {"-", "*", "_"})) >= 3

\* re.match(r'^(#{1,6})\s+(.+)$', s): <<>> or <<[level, content]>>
heading_match(s) ==
    LET h == run(s, {"#"})
        rest == ws_then_content(from(s, h))
    IN IF h >= 1 /\ h <= 6 /\ rest # <<>>
       THEN <<[level |-> h, content |-> rest[1]]>> ELSE <<>>

\* re.match(r'^(\s*)([-*+])\s+(.+)$', s): <<>> or <<[indent, content]>>
ul_match(s) ==
    LET indent == run(s, Spaces)
        after == from(s, indent)
    IN IF after # <<>> /\ Head(after) \in {"-", "*", "+"}
          /\ ws_then_content(Tail(after)) # <<>>
       THEN <<[indent |-> indent, content |-> ws_then_content(Tail(after))[1]]>>
       ELSE <<>>

\* re.match(r'^(\s*)(\d+)[.)]\s+(.+)$', s): <<>> or <<[indent, num, content]>>
ol_match(s) ==
    LET indent == run(s, Spaces)
        after == from(s, indent)
        d == run(after, Digits)
        tail == from(after, d)
    IN IF d >= 1 /\ tail # <<>> /\ Head(tail) \in {".", ")"}
          /\ ws_then_content(Tail(tail)) # <<>>
       THEN <<[indent |-> indent, num |-> SubSeq(after, 1, d),
               content |-> ws_then_content(Tail(tail))[1]]>>
       ELSE <<>>

(***************************************************************************)
(* markdown.py: the fragments simple_markdown appends to `result`. A       *)
(* fragment is kept as its element and its arguments; `text` and the cells *)
(* of a row are the strings handed to inline_format(escape(.)), `lines`    *)
(* the strings joined and escaped inside <pre><code>.                      *)
(***************************************************************************)
Block(kind) ==
    [kind |-> kind, text |-> <<>>, level |-> 0, margin |-> 0, num |-> <<>>,
     has_lang |-> FALSE, lang |-> <<>>, lines |-> <<>>, rows |-> <<>>]

\* lines 65-69: the cells of a row
row_cells(row) ==
    LET parts == split(row, "|")
        cells == [i \in 1..Len(parts) |-> strip(parts[i])]
        no_first == IF cells # <<>> /\ cells[1] = <<>> THEN Tail(cells) ELSE cells
    IN IF no_first # <<>> /\ no_first[Len(no_first)] = <<>>
       THEN SubSeq(no_first, 1, Len(no_first) - 1) ELSE no_first

\* line 71: the row is a separator row
is_separator(cells) ==
    \A i \in 1..Len(cells) : remove(remove(strip(cells[i]), "-"), ":") = <<>>

RECURSIVE table_html(_, _)
\* lines 64-74: the <tr> elements of the rows from index ri (from 0) on
table_html(rows, ri) ==
    IF ri >= Len(rows) THEN <<>>
    ELSE LET cells == row_cells(rows[ri + 1]) IN
         IF is_separator(cells) THEN table_html(rows, ri + 1)
         ELSE <<[tag |-> IF ri = 0 THEN "th" ELSE "td", cells |-> cells]>>
                  \o table_html(rows, ri + 1)

\* flush_table(), lines 59-78, as a function of the variables it reads;
\* it gives the values of the variables it writes
flush_table(res, rows, in_tab) ==
    IF rows = <<>>
    THEN [result |-> res, table_rows |-> rows, in_table |-> in_tab]
    ELSE [result |-> Append(res, [Block("table") EXCEPT
                                     !.rows = table_html(rows, 0)]),
          table_rows |-> <<>>, in_table |-> FALSE]

\* `if in_table: flush_table()`, lines 85-86, 109-110 and 170-171
flush_if_in_table(res, rows, in_tab) ==
    IF in_tab THEN flush_table(res, rows, in_tab)
    ELSE [result |-> res, table_rows |-> rows, in_table |-> in_tab]

\* lines 112-162: what a line outside fence and table appends to result
line_blocks(line) ==
    LET stripped == strip(line) IN
    IF is_rule(stripped) THEN <<Block("hr")>>
    ELSE IF heading_match(line) # <<>>
    THEN LET m == heading_match(line)[1] IN
         <<[Block("h") EXCEPT
               !.level = IF m.level + 1 < 6 THEN m.level + 1 ELSE 6,
               !.text = m.content]>>
    ELSE IF stripped = <<>> THEN <<>>
    ELSE IF startswith(stripped, <<">", " ">>)
    THEN <<[Block("blockquote") EXCEPT !.text = from(stripped, 2)]>>
    ELSE IF stripped = <<">">> THEN <<Block("blockquote")>>
    ELSE IF ul_match(line) # <<>>
    THEN LET m == ul_match(line)[1] IN
         <<[Block("ul-li") EXCEPT !.margin = m.indent * 12,
                                  !.text = m.content]>>
    ELSE IF ol_match(line) # <<>>
    THEN LET m == ol_match(line)[1] IN
         <<[Block("ol-li") EXCEPT !.margin = m.indent * 12, !.num = m.num,
                                  !.text = m.content]>>
    ELSE <<[Block("p") EXCEPT !.text = line]>>

\* the backquote character (a TLA+ string cannot hold it)
BQ == "bq"

Fence == <<BQ, BQ, BQ>>

\* line 84
is_fence(line) == startswith(strip(line), Fence)

\* line 102
is_table_row(line) ==
    contains(strip(line), "|") /\ startswith(strip(line), <<"|">>)

(***************************************************************************)
(* The lines of the inputs.                                                *)
(***************************************************************************)
L_FenceLang == <<BQ, BQ, BQ, "p", "y">>
L_Fence == <<BQ, BQ, BQ>>
L_Row == <<"|", "a", "|", "b", "|">>
L_Sep == <<"|", "-", "|", "-", "|">>
L_RowIndented == <<" ", "|", "c", "|">>
L_Heading == <<"#", " ", "T">>
L_Blank == <<>>
L_Quote == <<">", " ", "q">>
L_Ul == <<" ", "-", " ", "x">>
L_Ol == <<"1", ".", " ", "y">>
L_Rule == <<"-", "-", "-">>
L_Para == <<"h", "i">>

Lines ==
    {L_FenceLang, L_Fence, L_Row, L_Sep, L_RowIndented, L_Heading, L_Blank,
     L_Quote, L_Ul, L_Ol, L_Rule, L_Para}

(***************************************************************************)
(* simple_markdown as a program: one step per line of the input, in input  *)
(* order, then the end-of-input step.                                      *)
(***************************************************************************)
InitMarkdown ==
    /\ pc = "md"
    /\ in_code_block = FALSE
    /\ code_lang = <<>>
    /\ code_lines = <<>>
    /\ in_table = FALSE
    /\ table_rows = <<>>
    /\ result = <<>>
    /\ nlines = 0
    /\ last_line = <<>>
    /\ ClassifyIdle
    /\ NodeIdle
    /\ InlineIdle

Consume(line) ==
    /\ pc = "md"
    /\ nlines < MaxLines
    /\ nlines' = nlines + 1
    /\ last_line' = line
    /\ UNCHANGED <<pc, classify_vars, node_vars, inline_vars>>

\* OpenFence without the flush of the pending table
OpenFenceNoFlush(line) ==
    /\ Consume(line)
    /\ is_fence(line)
    /\ ~in_code_block
    /\ code_lang' = strip(from(strip(line), 3))
    /\ in_code_block' = TRUE
    /\ UNCHANGED <<code_lines, result, table_rows, in_table>>

\* lines 84-86 and 92-95: a delimiter line outside a fence
OpenFence(line) ==
    /\ Consume(line)
    /\ is_fence(line)
    /\ ~in_code_block
    /\ LET f == flush_if_in_table(result, table_rows, in_table) IN
          /\ result' = f.result
          /\ table_rows' = f.table_rows
          /\ in_table' = f.in_table
    /\ code_lang' = strip(from(strip(line), 3))
    /\ in_code_block' = TRUE
    /\ UNCHANGED code_lines

\* lines 84-91 and 95: a delimiter line inside a fence
CloseFence(line) ==
    /\ Consume(line)
    /\ is_fence(line)
    /\ in_code_block
    /\ LET f == flush_if_in_table(result, table_rows, in_table) IN
          /\ result' = Append(f.result,
                              [Block("pre") EXCEPT !.has_lang = TRUE,
                                                   !.lang = code_lang,
                                                   !.lines = code_lines])
          /\ table_rows' = f.table_rows
          /\ in_table' = f.in_table
    /\ code_lines' = <<>>
    /\ in_code_block' = FALSE
    /\ UNCHANGED code_lang

\* FenceContent buffering the trimmed line where the code buffers the raw one
FenceContentStripped(line) ==
    /\ Consume(line)
    /\ ~is_fence(line)
    /\ in_code_block
    /\ code_lines' = Append(code_lines, strip(line))
    /\ UNCHANGED <<in_code_block, code_lang, in_table, table_rows, result>>

\* lines 97-99: any other line inside a fence
FenceContent(line) ==
    /\ Consume(line)
    /\ ~is_fence(line)
    /\ in_code_block
    /\ code_lines' = Append(code_lines, line)
    /\ UNCHANGED <<in_code_block, code_lang, in_table, table_rows, result>>

\* lines 102-107: a table row outside a fence
TableRow(line) ==
    /\ Consume(line)
    /\ ~is_fence(line)
    /\ ~in_code_block
    /\ is_table_row(line)
    /\ in_table' = TRUE
    /\ table_rows' = Append(IF in_table THEN table_rows ELSE <<>>, strip(line))
    /\ UNCHANGED <<in_code_block, code_lang, code_lines, result>>

\* BlockLine flushing the pending table after the line's own fragment
BlockLineTableLast(line) ==
    /\ Consume(line)
    /\ ~is_fence(line)
    /\ ~in_code_block
    /\ ~is_table_row(line)
    /\ LET f == flush_if_in_table(result \o line_blocks(line), table_rows, in_table) IN
          /\ result' = f.result
          /\ table_rows' = f.table_rows
          /\ in_table' = f.in_table
    /\ UNCHANGED <<in_code_block, code_lang, code_lines>>

\* lines 108-162: any other line outside a fence
BlockLine(line) ==
    /\ Consume(line)
    /\ ~is_fence(line)
    /\ ~in_code_block
    /\ ~is_table_row(line)
    /\ LET f == flush_if_in_table(result, table_rows, in_table) IN
          /\ result' = f.result \o line_blocks(line)
          /\ table_rows' = f.table_rows
          /\ in_table' = f.in_table
    /\ UNCHANGED <<in_code_block, code_lang, code_lines>>

\* lines 164-173: the input has ended; text.split("\n") holds at least
\* one line, so at least one line was consumed
EndOfInput ==
    /\ pc = "md"
    /\ nlines >= 1
    /\ pc' = "md_done"
    /\ LET res == IF in_code_block /\ code_lines # <<>>
                  THEN Append(result, [Block("pre") EXCEPT !.lines = code_lines])
                  ELSE result
           f == flush_if_in_table(res, table_rows, in_table)
       IN /\ result' = f.result
          /\ table_rows' = f.table_rows
          /\ in_table' = f.in_table
    /\ UNCHANGED <<in_code_block, code_lang, code_lines, nlines, last_line,
                   classify_vars, node_vars, inline_vars>>

NextMarkdown ==
    \/ \E line \in Lines :
          \/ OpenFence(line)
          \/ CloseFence(line)
          \/ FenceContent(line)
          \/ TableRow(line)
          \/ BlockLine(line)
    \/ EndOfInput

SpecMarkdown == InitMarkdown /\ [][NextMarkdown]_vars

(***************************************************************************)
(* Claims about simple_markdown (checked under SpecMarkdown).              *)
(***************************************************************************)
IsTableBlock(res) == res # <<>> /\ res[Len(res)].kind = "table"

\* C10: the engine is never fencing and in a table at once; when a fence is
\* entered with a table pending, the table is flushed to a block first; and
\* a line of table shape consumed while fencing starts no table.
C10_FenceTableExclusive ==
    /\ ~(in_code_block /\ in_table)
    /\ [][/\ ~(in_code_block' /\ in_table')
          /\ (in_table /\ ~in_code_block /\ in_code_block') =>
                /\ ~in_table'
                /\ table_rows' = <<>>
                /\ Len(result') = Len(result) + 1
                /\ IsTableBlock(result')
          /\ (in_code_block /\ pc' = "md" /\ is_table_row(last_line')) =>
                /\ ~in_table'
                /\ table_rows' = table_rows
                /\ result' = result]_vars

\* fencing, after a pending table was flushed at the opening delimiter and
\* a line of table shape was consumed inside the fence
C10_Witness ==
    /\ pc = "md"
    /\ in_code_block
    /\ ~in_table
    /\ IsTableBlock(result)
    /\ is_table_row(last_line)
    /\ code_lines # <<>>

\* the language tag of a delimiter line: what follows the delimiter in the
\* trimmed line, trimmed
LangOf(line) == strip(SubSeq(strip(line), 4, Len(strip(line))))

\* C11: while fencing, a line that is no delimiter line is appended
\* unchanged to the fence buffer and changes nothing else, whatever its
\* shape; the next delimiter line emits one code block holding the buffered
\* lines in input order with the language of the opening delimiter, and
\* leaves the engine outside fence and table with an empty buffer.
C11_FenceCapturesVerbatim ==
    [][/\ (in_code_block /\ pc' = "md" /\ ~is_fence(last_line')) =>
            /\ code_lines' = code_lines \o <<last_line'>>
            /\ in_code_block'
            /\ code_lang' = code_lang
            /\ result' = result
            /\ in_table' = in_table
            /\ table_rows' = table_rows
       /\ (~in_code_block /\ in_code_block') =>
            /\ code_lang' = LangOf(last_line')
            /\ code_lines' = <<>>
       /\ (in_code_block /\ pc' = "md" /\ is_fence(last_line')) =>
            /\ Len(result') = Len(result) + 1
            /\ SubSeq(result', 1, Len(result)) = result
            /\ result'[Len(result')].kind = "pre"
            /\ result'[Len(result')].lines = code_lines
            /\ result'[Len(result')].has_lang
            /\ result'[Len(result')].lang = code_lang
            /\ ~in_code_block'
            /\ ~in_table'
            /\ code_lines' = <<>>]_vars

\* a code block just emitted by a closing delimiter: it has the language
\* of its opener and holds a table row and a list item as they were written
C11_Witness ==
    /\ pc = "md"
    /\ ~in_code_block
    /\ is_fence(last_line)
    /\ result # <<>>
    /\ result[Len(result)].kind = "pre"
    /\ result[Len(result)].lang = <<"p", "y">>
    /\ result[Len(result)].lines = <<L_RowIndented, L_Ul>>

\* C12: a fence or table still open when the input ends is flushed to a
\* block: the end-of-input step emits one code block holding the lines
\* accumulated after the opener, also when there are none, and emits a
\* still-open table through flush_table.
C12_OpenBlocksFlushedAtEnd ==
    [][(pc = "md" /\ pc' = "md_done") =>
          /\ in_code_block =>
                /\ Len(result') = Len(result) + 1
                /\ result'[Len(result')].kind = "pre"
                /\ result'[Len(result')].lines = code_lines
          /\ in_table =>
                result' = flush_table(result, table_rows, in_table).result]_vars

\* C13: in every table emitted, no separator row is rendered, the first
\* row rendered (the first non-separator row of the buffer) is the header
\* row and every later one is a data row, wherever the separator rows stood.
C13_FirstKeptRowIsHeader ==
    \A i \in 1..Len(result) :
        result[i].kind = "table" =>
            \A j \in 1..Len(result[i].rows) :
                /\ ~is_separator(result[i].rows[j].cells)
                /\ result[i].rows[j].tag = IF j = 1 THEN "th" ELSE "td"

\* the rules of the priority list that consume the line of this step
RulesTaken(line) ==
    {r \in {"open", "close", "content", "row", "block"} :
        CASE r = "open" -> OpenFence(line)
          [] r = "close" -> CloseFence(line)
          [] r = "content" -> FenceContent(line)
          [] r = "row" -> TableRow(line)
          [] r = "block" -> BlockLine(line)}

\* C16: each line is consumed by exactly one rule and emits at most one
\* block of its own; blocks are only ever appended, so they stand in the
\* order of the lines that produced them; the rows of a table emit nothing
\* until the table is flushed as one block, and when a line of another
\* shape ends a table the table block comes before that line's own block.
C16_BlocksInLineOrder ==
    [][/\ SubSeq(result', 1, Len(result)) = result
       /\ pc' = "md" =>
            /\ Cardinality(RulesTaken(last_line')) = 1
            /\ IF in_table /\ ~in_table'
               THEN /\ Len(result') \in {Len(result) + 1, Len(result) + 2}
                    /\ result'[Len(result) + 1].kind = "table"
                    /\ result'[Len(result) + 1].rows = table_html(table_rows, 0)
                    /\ \A i \in (Len(result) + 2)..Len(result') :
                            result'[i].kind # "table"
               ELSE /\ Len(result') \in {Len(result), Len(result) + 1}
                    /\ \A i \in (Len(result) + 1)..Len(result') :
                            result'[i].kind # "table"
            /\ in_table' => result' = result
       /\ pc' = "md_done" => Len(result') \in {Len(result), Len(result) + 1}]_vars

\* a heading line has just ended a table: the table block stands before
\* the heading
C16_Witness ==
    /\ pc = "md"
    /\ last_line = L_Heading
    /\ Len(result) >= 2
    /\ result[Len(result) - 1].kind = "table"
    /\ result[Len(result)].kind = "h"

(***************************************************************************)
(* inline_format (markdown.py lines 12-46) and the escape its callers      *)
(* apply first. A text is a sequence whose elements are single characters; *)
(* each literal piece of a replacement template ("<strong>", "</a>", ...)  *)
(* is one element of its own. No pattern of inline_format can match inside *)
(* such a piece (none holds a backquote, bracket, parenthesis, "!", "*",   *)
(* "~" or two "_" in a row), so to every pattern a piece is one character  *)
(* that is none of the characters the pattern names.                       *)
(***************************************************************************)
\* the character "\x00"
NUL == "\\x00"

\* html.escape(c) for one character, quote=True
escape_char(c) ==
    CASE c = "&" -> <<"&", "a", "m", "p", ";">>
      [] c = "<" -> <<"&", "l", "t", ";">>
      [] c = ">" -> <<"&", "g", "t", ";">>
      [] c = "\"" -> <<"&", "q", "u", "o", "t", ";">>
      [] c = "'" -> <<"&", "#", "x", "2", "7", ";">>
      [] OTHER -> <<c>>

RECURSIVE escape(_)
\* html.escape(s)
escape(s) == IF s = <<>> THEN <<>> ELSE escape_char(Head(s)) \o escape(Tail(s))

\* the pieces of the replacement templates
T_Code == "<code>"
T_CodeEnd == "</code>"
T_ImgSrc == "<img src=\""
T_ImgAlt == "\" alt=\""
T_ImgEnd == "\" style=\"max-width:360px;border-radius:6px\">"
T_AHref == "<a href=\""
T_ATarget == "\" target=\"_blank\">"
T_AEnd == "</a>"
T_Strong == "<strong>"
T_StrongEnd == "</strong>"
T_Em == "<em>"
T_EmEnd == "</em>"
T_Del == "<del>"
T_DelEnd == "</del>"

\* s has the text p at position i
at(s, i, p) == i + Len(p) - 1 <= Len(s) /\ SubSeq(s, i, i + Len(p) - 1) = p

RECURSIVE span(_, _, _)
\* the length of the longest run of s from position i on that holds no
\* character of stop: what a greedy [^...]* takes
span(s, i, stop) ==
    IF i <= Len(s) /\ s[i] \notin stop THEN 1 + span(s, i + 1, stop) ELSE 0

\* the least element of a non-empty set of positions
least(S) == CHOOSE x \in S : \A y \in S : x <= y

\* a match: the position of its last character and its groups; end = 0
\* when the pattern does not match at the position asked
NoMatch == [end |-> 0, g1 |-> <<>>, g2 |-> <<>>]
Matched(e, a, b) == [end |-> e, g1 |-> a, g2 |-> b]

\* line 21, `([^`]+)` between two backquotes, matched at position i of s
match_code(s, i) ==
    LET k == span(s, i + 1, {BQ}) IN
    IF s[i] = BQ /\ k >= 1 /\ i + 1 + k <= Len(s)
    THEN Matched(i + 1 + k, SubSeq(s, i + 1, i + k), <<>>)
    ELSE NoMatch

\* `\]\(([^)]+)\)` matched at position j of s, after a group g1
match_target(s, j, g1) ==
    LET u == span(s, j + 2, {")"}) IN
    IF at(s, j, <<"]", "(">>) /\ u >= 1 /\ j + 2 + u <= Len(s)
    THEN Matched(j + 2 + u, g1, SubSeq(s, j + 2, j + 1 + u))
    ELSE NoMatch

\* line 25, `!\[([^\]]*)\]\(([^)]+)\)` matched at position i of s
match_image(s, i) ==
    LET a == span(s, i + 2, {"]"}) IN
    IF at(s, i, <<"!", "[">>)
    THEN match_target(s, i + 2 + a, SubSeq(s, i + 2, i + 1 + a))
    ELSE NoMatch

\* line 30, `\[([^\]]+)\]\(([^)]+)\)` matched at position i of s
match_link(s, i) ==
    LET a == span(s, i + 1, {"]"}) IN
    IF s[i] = "[" /\ a >= 1
    THEN match_target(s, i + 1 + a, SubSeq(s, i + 1, i + a))
    ELSE NoMatch

\* lines 33-38, `d(.+?)d` for a delimiter d, matched at position i of s:
\* the lazy group ends before the first d that leaves it one character
match_delim(s, i, d) ==
    LET ends == {e \in (i + Len(d) + 1)..Len(s) : at(s, e, d)} IN
    IF at(s, i, d) /\ ends # {}
    THEN Matched(least(ends) + Len(d) - 1,
                 SubSeq(s, i + Len(d), least(ends) - 1), <<>>)
    ELSE NoMatch

\* `(?<!\*)\*(?!\*)` at position i of s
lone_star(s, i) ==
    /\ s[i] = "*"
    /\ i = 1 \/ s[i - 1] # "*"
    /\ i = Len(s) \/ s[i + 1] # "*"

\* line 40, `(?<!\*)\*(?!\*)(.+?)(?<!\*)\*(?!\*)` matched at position i of s
match_em(s, i) ==
    LET ends == {j \in (i + 2)..Len(s) : lone_star(s, j)} IN
    IF lone_star(s, i) /\ ends # {}
    THEN Matched(least(ends), SubSeq(s, i + 1, least(ends) - 1), <<>>)
    ELSE NoMatch

RECURSIVE decimal(_)
\* str(n) for n >= 0
decimal(n) ==
    LET digit == <<"0", "1", "2", "3", "4", "5", "6", "7", "8", "9">> IN
    IF n < 10 THEN <<digit[n + 1]>>
    ELSE decimal(n \div 10) \o <<digit[(n % 10) + 1]>>

\* line 19: the placeholder of the code span saved as number i
placeholder(i) == <<NUL, "C">> \o decimal(i) \o <<NUL>>

\* the match of pattern rx at position i of s
match(rx, s, i) ==
    CASE rx = "code" -> match_code(s, i)
      [] rx = "image" -> match_image(s, i)
      [] rx = "link" -> match_link(s, i)
      [] rx = "bold_italic" -> match_delim(s, i, <<"*", "*", "*">>)
      [] rx = "bold" -> match_delim(s, i, <<"*", "*">>)
      [] rx = "bold_underscore" -> match_delim(s, i, <<"_", "_">>)
      [] rx = "strike" -> match_delim(s, i, <<"~", "~">>)
      [] rx = "em" -> match_em(s, i)

\* what pattern rx puts in the place of match mt; n is the number of
\* code spans saved before it
replacement(rx, mt, n) ==
    CASE rx = "code" -> placeholder(n)
      [] rx = "image" ->
            <<T_ImgSrc>> \o mt.g2 \o <<T_ImgAlt>> \o mt.g1 \o <<T_ImgEnd>>
      [] rx = "link" ->
            <<T_AHref>> \o mt.g2 \o <<T_ATarget>> \o mt.g1 \o <<T_AEnd>>
      [] rx = "bold_italic" ->
            <<T_Strong, T_Em>> \o mt.g1 \o <<T_EmEnd, T_StrongEnd>>
      [] rx \in {"bold", "bold_underscore"} ->
            <<T_Strong>> \o mt.g1 \o <<T_StrongEnd>>
      [] rx = "strike" -> <<T_Del>> \o mt.g1 \o <<T_DelEnd>>
      [] rx = "em" -> <<T_Em>> \o mt.g1 \o <<T_EmEnd>>

RECURSIVE sub(_, _, _, _)
\* re.sub(rx, replacement, s) from position i on: the leftmost match is
\* replaced and the search goes on behind it; n counts the matches so far
sub(rx, s, i, n) ==
    IF i > Len(s) THEN <<>>
    ELSE LET mt == match(rx, s, i) IN
         IF mt.end = 0 THEN <<s[i]>> \o sub(rx, s, i + 1, n)
         ELSE replacement(rx, mt, n) \o sub(rx, s, mt.end + 1, n + 1)

RECURSIVE saved(_, _)
\* lines 17-19: the groups _save_code appends to code_spans, in the order
\* of the matches of line 21
saved(s, i) ==
    IF i > Len(s) THEN <<>>
    ELSE LET mt == match_code(s, i) IN
         IF mt.end = 0 THEN saved(s, i + 1)
         ELSE <<mt.g1>> \o saved(s, mt.end + 1)

RECURSIVE replace(_, _, _)
\* s.replace(old, new)
replace(s, old, new) ==
    IF s = <<>> THEN <<>>
    ELSE IF startswith(s, old)
         THEN new \o replace(from(s, Len(old)), old, new)
         ELSE <<Head(s)>> \o replace(Tail(s), old, new)

RECURSIVE restore(_, _, _)
\* lines 43-44: the loop over enumerate(code_spans), from index i on
restore(s, spans, i) ==
    IF i >= Len(spans) THEN s
    ELSE restore(replace(s, placeholder(i),
                         <<T_Code>> \o spans[i + 1] \o <<T_CodeEnd>>),
                 spans, i + 1)

\* the statements of inline_format, one operator each
save_code(s) == sub("code", s, 1, 0)
images(s) == sub("image", s, 1, 0)
links(s) == sub("link", s, 1, 0)
bold_italic(s) == sub("bold_italic", s, 1, 0)

RECURSIVE bold_plain_only(_)
\* re.sub with `\*\*([^*]+)\*\*` where line 35 has `\*\*(.+?)\*\*`
bold_plain_only(s) ==
    LET k == span(s, 3, {"*"}) IN
    IF s = <<>> THEN <<>>
    ELSE IF at(s, 1, <<"*", "*">>) /\ k >= 1 /\ at(s, 3 + k, <<"*", "*">>)
         THEN <<T_Strong>> \o SubSeq(s, 3, 2 + k) \o <<T_StrongEnd>>
                \o bold_plain_only(from(s, 4 + k))
         ELSE <<Head(s)>> \o bold_plain_only(Tail(s))

bold(s) == sub("bold", s, 1, 0)
bold_underscore(s) == sub("bold_underscore", s, 1, 0)
strike(s) == sub("strike", s, 1, 0)
italic(s) == sub("em", s, 1, 0)
restore_code(s, spans) == restore(s, spans, 0)

(***************************************************************************)
(* inline_format as a program: a caller holds a text (Init), escapes it    *)
(* and calls inline_format, whose statements run one after the other.      *)
(***************************************************************************)
RECURSIVE concat(_)
\* the texts of a sequence joined
concat(q) == IF q = <<>> THEN <<>> ELSE Head(q) \o concat(Tail(q))

\* longest run of characters between two marks of an emphasis line
MaxText == 2
\* most pieces joined into the url of a link, or into a line with code spans
MaxPieces == 3

\* runs of characters that are no markup; "<" is one that escape rewrites
Texts == SeqsUpTo({"a", "<"}, MaxText) \ {<<>>}

\* the line `**A *B* C**`
EmphasisLine(A, B, C) ==
    <<"*", "*">> \o A \o <<" ", "*">> \o B \o <<"*", " ">> \o C \o <<"*", "*">>

EmphasisLines == {EmphasisLine(A, B, C) : A \in Texts, B \in Texts, C \in Texts}

\* what a url is joined from: characters and pairs of emphasis marks
UrlPieces == {<<"u">>, <<"_", "_">>, <<"*", "*">>, <<"~", "~">>, <<"*">>}
Urls == {concat(q) : q \in SeqsUpTo(UrlPieces, MaxPieces) \ {<<>>}}

\* the link `[t](url)` and the image `![t](url)`
LinkLine(url) == <<"[", "t", "]", "(">> \o url \o <<")">>
ImageLine(url) == <<"!", "[", "t", "]", "(">> \o url \o <<")">>
LinkLines == {LinkLine(url) : url \in Urls} \cup {ImageLine(url) : url \in Urls}

\* what a line with code spans is joined from: two code spans, the
\* characters \x00 C 0 \x00, plain text, and marks of the later stages
CodePieces ==
    {<<BQ, "x", BQ>>, <<BQ, "*", "*", BQ>>, <<NUL, "C", "0", NUL>>, <<"a">>,
     <<"*", "*">>, <<"[", "t", "]", "(">>, <<")">>}
CodeLines == {concat(q) : q \in SeqsUpTo(CodePieces, MaxPieces)}

InitInline ==
    /\ pc = "escape"
    /\ raw_text \in EmphasisLines \cup LinkLines \cup CodeLines
    /\ inline_text = <<>>
    /\ code_spans = <<>>
    /\ ClassifyIdle
    /\ NodeIdle
    /\ MdIdle

\* a statement of inline_format that rewrites text: from label here to
\* label there
Stage(here, there, new_text) ==
    /\ pc = here
    /\ pc' = there
    /\ inline_text' = new_text
    /\ UNCHANGED <<raw_text, classify_vars, node_vars, md_vars>>

\* the caller: inline_format(escape(...)), lines 104-162
Escape ==
    /\ Stage("escape", "save_code", escape(raw_text))
    /\ UNCHANGED code_spans

\* lines 15-21
SaveCode ==
    /\ Stage("save_code", "images", save_code(inline_text))
    /\ code_spans' = saved(inline_text, 1)

\* lines 24-28
Images ==
    /\ Stage("images", "links", images(inline_text))
    /\ UNCHANGED code_spans

\* line 30
Links ==
    /\ Stage("links", "bold_italic", links(inline_text))
    /\ UNCHANGED code_spans

\* line 33
BoldItalic ==
    /\ Stage("bold_italic", "bold", bold_italic(inline_text))
    /\ UNCHANGED code_spans

\* line 35
Bold ==
    /\ Stage("bold", "bold_underscore", bold(inline_text))
    /\ UNCHANGED code_spans

\* line 36
BoldUnderscore ==
    /\ Stage("bold_underscore", "strike", bold_underscore(inline_text))
    /\ UNCHANGED code_spans

\* line 38
Strike ==
    /\ Stage("strike", "italic", strike(inline_text))
    /\ UNCHANGED code_spans

\* line 40
Italic ==
    /\ Stage("italic", "restore_code", italic(inline_text))
    /\ UNCHANGED code_spans

\* lines 43-46
RestoreCode ==
    /\ Stage("restore_code", "inline_done", restore_code(inline_text, code_spans))
    /\ UNCHANGED code_spans

NextInline ==
    \/ Escape
    \/ SaveCode
    \/ Images
    \/ Links
    \/ BoldItalic
    \/ Bold
    \/ BoldUnderscore
    \/ Strike
    \/ Italic
    \/ RestoreCode

SpecInline == InitInline /\ [][NextInline]_vars

\* how often the element c stands in s
count(s, c) == Cardinality({i \in 1..Len(s) : s[i] = c})

\* the text p stands somewhere in s
occurs(s, p) == \E i \in 1..Len(s) : at(s, i, p)

\* C14: whatever characters escape lets through, inline_format emits the
\* content of each code span unaltered inside a code element of its own,
\* and nothing that was not a code span is replaced by the content of one:
\* the output has as many code elements as the line has code spans.
C14_CodeSpansKept ==
    pc = "inline_done" =>
        /\ count(inline_text, T_Code) = Len(code_spans)
        /\ \A k \in 1..Len(code_spans) :
              occurs(inline_text, <<T_Code>> \o code_spans[k] \o <<T_CodeEnd>>)

\* the line is `**A *B* C**` for these A, B, C
IsEmphasisLine(s, A, B, C) == s = EmphasisLine(A, B, C)

\* C15: a line `**A *B* C**` with A, B, C non-empty and free of markup
\* gives one bold element around the whole span with exactly B in italic
\* inside it: no italic outside the bold, no "*" left over.
C15_ItalicInsideBold ==
    pc = "inline_done" =>
        \A A \in Texts, B \in Texts, C \in Texts :
            IsEmphasisLine(raw_text, A, B, C) =>
                inline_text = <<T_Strong>> \o escape(A) \o <<" ", T_Em>>
                                \o escape(B) \o <<T_EmEnd, " ">> \o escape(C)
                                \o <<T_StrongEnd>>

\* the line `**a< *<* aa**` has been formatted
C15_Witness ==
    /\ pc = "inline_done"
    /\ raw_text = EmphasisLine(<<"a", "<">>, <<"<">>, <<"a", "a">>)
    /\ count(inline_text, T_Em) = 1

RECURSIVE url_attrs(_)
\* the values of the href and src attributes in s, in their order: what
\* stands between an opening piece and the piece that closes the attribute
url_attrs(s) ==
    IF s = <<>> THEN <<>>
    ELSE IF Head(s) \in {T_AHref, T_ImgSrc}
         THEN LET n == span(s, 2, {T_ATarget, T_ImgAlt}) IN
              <<SubSeq(s, 2, 1 + n)>> \o url_attrs(from(s, 1 + n))
         ELSE url_attrs(Tail(s))

\* C17: the url written into the href of a link or the src of an image is
\* the url of the source: the bold, strikethrough and italic stages insert
\* no tag inside the attribute of an element already emitted.
C17_UrlWrittenAsGiven ==
    pc = "inline_done" =>
        \A url \in Urls :
            raw_text \in {LinkLine(url), ImageLine(url)} =>
                url_attrs(inline_text) = <<escape(url)>>

====
